---- MODULE Spec2Model ----
(***************************************************************************)
(* Model of my_model_selectors.py: the four model-selection strategies     *)
(* (SelectorConstant, SelectorBIC, SelectorDIC, SelectorCV) searching the  *)
(* state-count range of one word.  The HMM trainer/scorer (hmmlearn), the  *)
(* fold splitter (sklearn KFold) and the mean functions are modelled by    *)
(* what they return or raise; trainer outcomes are chosen at the call.     *)
(*                                                                         *)
(* Numbers: log-likelihoods are integers.  BIC scores are kept in 1/1000   *)
(* units (ln N is a 3-decimal table), DIC and CV scores in 1/60 units so   *)
(* that the mean of up to 6 integers is exact.                             *)
(***************************************************************************)
EXTENDS Integers, Sequences, FiniteSets, TLC

\* ---- bounds of the exploration ----
MaxStates == 4      \* largest min_n_components / max_n_components / n_constant
MaxOthers == 2      \* largest number of words other than this_word
MaxSeqs == 5        \* largest len(self.sequences)

\* ---- inputs ----
Strategies == {"Constant", "BIC", "DIC", "CV"}
LogLs == {-100, -80, -78}       \* values model.score can return
FoldLogLs == {-80, -78}         \* values model.score returns on a test fold
Rows == {1, 50}                 \* N of self.X.shape
Cols == {1, 6}                  \* M of self.X.shape
KFoldDefaults == {3, 5}         \* n_splits of KFold(): 3 before sklearn 0.22, 5 since

\* what one model.score call does: returns v, or raises
Outcomes == {[ok |-> FALSE, v |-> 0]} \cup {[ok |-> TRUE, v |-> x] : x \in LogLs}
FoldOutcomes == {[ok |-> FALSE, v |-> 0]} \cup {[ok |-> TRUE, v |-> x] : x \in FoldLogLs}

\* ---- floats: finite values, the infinities and NaN ----
Fin(x) == [kind |-> "fin", v |-> x]
PosInf == [kind |-> "inf", v |-> 0]
NegInf == [kind |-> "-inf", v |-> 0]
NaN == [kind |-> "nan", v |-> 0]

\* a >= b, which is not the comparison of the source
FloatGe(a, b) ==
    /\ a.kind # "nan" /\ b.kind # "nan"
    /\ \/ a.kind = "inf"
       \/ b.kind = "-inf"
       \/ a.kind = "fin" /\ b.kind = "fin" /\ a.v >= b.v

\* a > b of Python floats
FloatGt(a, b) ==
    /\ a.kind # "nan" /\ b.kind # "nan"
    /\ \/ a.kind = "inf" /\ b.kind # "inf"
       \/ a.kind # "-inf" /\ b.kind = "-inf"
       \/ a.kind = "fin" /\ b.kind = "fin" /\ a.v > b.v

\* a < b of Python floats
FloatLt(a, b) == FloatGt(b, a)

RECURSIVE SeqSum(_)
SeqSum(s) == IF s = <<>> THEN 0 ELSE Head(s) + SeqSum(Tail(s))

\* ---- models ----
None == [n |-> 0, on |-> {}]
AllIdx(nseq) == 0 .. (nseq - 1)

\* a GaussianHMM with n states whose last fit was on the sequences idx
Model(n, idx) == [n |-> n, on |-> idx]

VARIABLES ctx, pc, n_states, best_score, best_model, model, logL, score,
          state_scores, kf, fold, result, exc, trained, tried, last

vars == <<ctx, pc, n_states, best_score, best_model, model, logL, score,
          state_scores, kf, fold, result, exc, trained, tried, last>>

StateCounts == 2 .. MaxStates

\* ---- the context built by ModelSelector.__init__ ----
Cfg(s, mn, mx, nc, nseq, oth, N, M, kd) ==
    [strategy |-> s, min_n_components |-> mn, max_n_components |-> mx,
     n_constant |-> nc, sequences |-> nseq, others |-> oth, N |-> N, M |-> M,
     kfold_default |-> kd]

\* each strategy is explored over the inputs it reads; the inputs it never
\* reads stay at one value
Configs ==
    {Cfg("Constant", 2, MaxStates, nc, 1, 0, 1, 1, 3) : nc \in StateCounts}
    \cup {Cfg("BIC", mn, mx, 3, 1, 0, N, M, 3) :
            mn \in StateCounts, mx \in StateCounts, N \in Rows, M \in Cols}
    \cup {Cfg("DIC", mn, mx, 3, 1, oth, 1, 1, 3) :
            mn \in StateCounts, mx \in StateCounts, oth \in 0 .. MaxOthers}
    \cup {Cfg("CV", mn, mx, 3, nseq, 0, 1, 1, kd) :
            mn \in StateCounts, mx \in StateCounts, nseq \in 0 .. MaxSeqs,
            kd \in KFoldDefaults}

Untried == [status |-> "untried", logL |-> 0, score |-> NaN]
Failed == [status |-> "failed", logL |-> 0, score |-> NaN]
NoCall == [train |-> "none", own |-> [ok |-> FALSE, v |-> 0], others |-> <<>>]

Init ==
    /\ ctx \in Configs
    /\ pc = "init"
    /\ n_states = 0
    /\ best_score = NaN
    /\ best_model = None
    /\ model = None
    /\ logL = 0
    /\ score = NaN
    /\ state_scores = <<>>
    /\ kf = 0
    /\ fold = 0
    /\ result = None
    /\ exc = "none"
    /\ trained = [n \in StateCounts |-> "unknown"]
    /\ tried = [n \in StateCounts |-> Untried]
    /\ last = NoCall

\* ---- ModelSelector.base_model ----
\* GaussianHMM(...).fit(self.X, self.lengths) with the fixed random_state:
\* the same state count gives the same outcome on every call
TrainOutcomes(n) ==
    IF trained[n] = "unknown" THEN {"ok", "fail"} ELSE {trained[n]}

\* the fitted model, or None when the fit raised (the bare except)
base_model(num_states, t) ==
    IF t = "ok" THEN Model(num_states, AllIdx(ctx.sequences)) ELSE None

\* ---- SelectorConstant.select ----
ConstantSelect ==
    /\ pc = "init" /\ ctx.strategy = "Constant"
    /\ \E t \in TrainOutcomes(ctx.n_constant) :
         /\ trained' = [trained EXCEPT ![ctx.n_constant] = t]
         /\ result' = base_model(ctx.n_constant, t)
    /\ pc' = "done"
    /\ UNCHANGED <<ctx, n_states, best_score, best_model, model, logL, score,
                   state_scores, kf, fold, exc, tried, last>>

\* ---- SelectorBIC.select ----
\* np.log(N), to three decimals
LnMilli(N) == CASE N = 1 -> 0 [] N = 2 -> 693 [] N = 50 -> 3912

\* a score without the factor 2 on logL, which is not the score of the source
BICScoreHalf(l, n, N, M) == Fin(-1000 * l + (n * n + 2 * M * n - 1) * LnMilli(N))

\* p = n^2 + 2*M*n - 1; score = -2*logL + p*log(N), in 1/1000
BICScore(l, n, N, M) == Fin(-2000 * l + (n * n + 2 * M * n - 1) * LnMilli(N))

BICBegin ==
    /\ pc = "init" /\ ctx.strategy = "BIC"
    /\ best_score' = PosInf
    /\ best_model' = None
    /\ n_states' = ctx.min_n_components
    /\ pc' = "loop"
    /\ UNCHANGED <<ctx, model, logL, score, state_scores, kf, fold, result,
                   exc, trained, tried, last>>

\* one pass of the for loop: try / except: pass / else
BICIter ==
    /\ pc = "loop" /\ ctx.strategy = "BIC"
    /\ n_states <= ctx.max_n_components
    /\ \E t \in TrainOutcomes(n_states), o \in Outcomes :
         LET m == base_model(n_states, t)
             sc == BICScore(o.v, n_states, ctx.N, ctx.M)
         IN /\ trained' = [trained EXCEPT ![n_states] = t]
            /\ model' = m
            /\ IF m = None \/ ~o.ok
                 THEN \* the assert or model.score raised: pass
                      /\ tried' = [tried EXCEPT ![n_states] = Failed]
                      /\ UNCHANGED <<logL, score, best_score, best_model>>
                 ELSE /\ logL' = o.v
                      /\ score' = sc
                      /\ tried' = [tried EXCEPT ![n_states] =
                                     [status |-> "scored", logL |-> o.v, score |-> sc]]
                      /\ IF FloatLt(sc, best_score)
                           THEN best_score' = sc /\ best_model' = m
                           ELSE UNCHANGED <<best_score, best_model>>
    /\ n_states' = n_states + 1
    /\ UNCHANGED <<ctx, pc, state_scores, kf, fold, result, exc, last>>

BICReturn ==
    /\ pc = "loop" /\ ctx.strategy = "BIC"
    /\ n_states > ctx.max_n_components
    /\ result' = best_model
    /\ pc' = "done"
    /\ UNCHANGED <<ctx, n_states, best_score, best_model, model, logL, score,
                   state_scores, kf, fold, exc, trained, tried, last>>

\* ---- SelectorDIC.select ----
\* a mean that is 0 for an empty list, which is not the mean of the source
NpMeanZero(s) ==
    IF Len(s) = 0 THEN Fin(0) ELSE Fin((60 * SeqSum(s)) \div Len(s))

\* np.mean of a list of floats, in 1/60: NaN (and a warning) for the empty list
NpMean(s) ==
    IF Len(s) = 0 THEN NaN ELSE Fin((60 * SeqSum(s)) \div Len(s))

\* a - b of floats, a finite
FloatSub(a, b) ==
    CASE b.kind = "fin" -> Fin(a.v - b.v)
      [] b.kind = "nan" -> NaN
      [] b.kind = "inf" -> NegInf
      [] b.kind = "-inf" -> PosInf

\* logL + means, which is not the score of the source
DICScorePlus(l, s) == Fin(60 * l + NpMean(s).v)

\* score = logL - means, in 1/60
DICScore(l, s) == FloatSub(Fin(60 * l), NpMean(s))

DICBegin ==
    /\ pc = "init" /\ ctx.strategy = "DIC"
    /\ best_score' = NegInf
    /\ best_model' = None
    /\ n_states' = ctx.min_n_components
    /\ pc' = "loop"
    /\ UNCHANGED <<ctx, model, logL, score, state_scores, kf, fold, result,
                   exc, trained, tried, last>>

\* one pass of the for loop; oth[w] is what model.score(*self.hwords[word])
\* does for the w-th other word
DICIter ==
    /\ pc = "loop" /\ ctx.strategy = "DIC"
    /\ n_states <= ctx.max_n_components
    /\ \E t \in TrainOutcomes(n_states), own \in Outcomes,
          oth \in [1 .. ctx.others -> Outcomes] :
         LET m == base_model(n_states, t)
             scs == [w \in 1 .. ctx.others |-> oth[w].v]
             sc == DICScore(own.v, scs)
         IN /\ trained' = [trained EXCEPT ![n_states] = t]
            /\ model' = m
            /\ IF m = None
                 THEN \* the assert raised: pass
                      /\ tried' = [tried EXCEPT ![n_states] = Failed]
                      /\ last' = [NoCall EXCEPT !.train = t]
                      /\ UNCHANGED <<logL, score, best_score, best_model>>
                 ELSE IF ~own.ok
                 THEN \* model.score(self.X, self.lengths) raised: pass
                      /\ tried' = [tried EXCEPT ![n_states] = Failed]
                      /\ last' = [NoCall EXCEPT !.train = t]
                      /\ UNCHANGED <<logL, score, best_score, best_model>>
                 ELSE IF \E w \in 1 .. ctx.others : ~oth[w].ok
                 THEN \* a model.score in the list comprehension raised: pass
                      /\ logL' = own.v
                      /\ tried' = [tried EXCEPT ![n_states] = Failed]
                      /\ last' = [train |-> t, own |-> own, others |-> oth]
                      /\ UNCHANGED <<score, best_score, best_model>>
                 ELSE /\ logL' = own.v
                      /\ score' = sc
                      /\ tried' = [tried EXCEPT ![n_states] =
                                     [status |-> "scored", logL |-> own.v, score |-> sc]]
                      /\ last' = [train |-> t, own |-> own, others |-> oth]
                      /\ IF FloatGt(sc, best_score)
                           THEN best_score' = sc /\ best_model' = m
                           ELSE UNCHANGED <<best_score, best_model>>
    /\ n_states' = n_states + 1
    /\ UNCHANGED <<ctx, pc, state_scores, kf, fold, result, exc>>

DICReturn ==
    /\ pc = "loop" /\ ctx.strategy = "DIC"
    /\ n_states > ctx.max_n_components
    /\ result' = best_model
    /\ pc' = "done"
    /\ UNCHANGED <<ctx, n_states, best_score, best_model, model, logL, score,
                   state_scores, kf, fold, exc, trained, tried, last>>

\* ---- SelectorCV.select ----
\* a threshold and fallback state count one below the constant of the source
min_num_states_two == 3 - 1

min_num_states == 3

\* KFold(n_splits=k).split over n samples, without shuffling: the first n % k
\* folds hold n // k + 1 consecutive test indices, the others n // k
FoldStart(n, k, i) ==
    (i - 1) * (n \div k) + (IF i - 1 < n % k THEN i - 1 ELSE n % k)

KFoldSplit(n, k) ==
    [i \in 1 .. k |->
       LET test == FoldStart(n, k, i) .. (FoldStart(n, k, i + 1) - 1)
       IN [train |-> AllIdx(n) \ test, test |-> test]]

\* statistics.mean of a non-empty list, in 1/60
StatMean(s) == Fin((60 * SeqSum(s)) \div Len(s))

\* the score given to a state count without any usable fold
NoFoldScore == PosInf

\* best_model = self.base_model(3), then the guard on len(self.sequences)
CVBegin ==
    /\ pc = "init" /\ ctx.strategy = "CV"
    /\ best_score' = NegInf
    /\ \E t \in TrainOutcomes(min_num_states) :
         /\ trained' = [trained EXCEPT ![min_num_states] = t]
         /\ best_model' = base_model(min_num_states, t)
         /\ IF ctx.sequences < min_num_states
              THEN /\ result' = base_model(min_num_states, t)
                   /\ pc' = "done"
                   /\ UNCHANGED n_states
              ELSE /\ n_states' = ctx.min_n_components
                   /\ pc' = "loop"
                   /\ UNCHANGED result
    /\ UNCHANGED <<ctx, model, logL, score, state_scores, kf, fold, exc,
                   tried, last>>

\* top of the outer loop: state_scores = [], kf = KFold(), kf.split(...);
\* split raises ValueError when n_splits exceeds the number of samples
CVSplit ==
    /\ pc = "loop" /\ ctx.strategy = "CV"
    /\ n_states <= ctx.max_n_components
    /\ state_scores' = <<>>
    /\ kf' = ctx.kfold_default
    /\ IF ctx.kfold_default > ctx.sequences
         THEN /\ exc' = "ValueError"
              /\ pc' = "raised"
              /\ UNCHANGED fold
         ELSE /\ fold' = 1
              /\ pc' = "fold"
              /\ UNCHANGED exc
    /\ UNCHANGED <<ctx, n_states, best_score, best_model, model, logL, score,
                   result, trained, tried, last>>

\* one pass of the inner loop: base_model, assert, model.fit on the train
\* part (both outside any try), model.score on the test part (inside one)
CVFold ==
    /\ pc = "fold" /\ fold <= kf
    /\ \E t \in TrainOutcomes(n_states), f \in {"ok", "fail"}, o \in FoldOutcomes :
         LET m == base_model(n_states, t)
             split == KFoldSplit(ctx.sequences, kf)[fold]
         IN /\ trained' = [trained EXCEPT ![n_states] = t]
            /\ IF m = None
                 THEN /\ model' = None
                      /\ exc' = "AssertionError"
                      /\ pc' = "raised"
                      /\ UNCHANGED <<state_scores, fold>>
                 ELSE IF f = "fail"
                 THEN /\ model' = m
                      /\ exc' = "FitError"
                      /\ pc' = "raised"
                      /\ UNCHANGED <<state_scores, fold>>
                 ELSE /\ model' = Model(n_states, split.train)
                      /\ state_scores' = IF o.ok THEN Append(state_scores, o.v)
                                                 ELSE state_scores
                      /\ fold' = fold + 1
                      /\ UNCHANGED <<exc, pc>>
    /\ UNCHANGED <<ctx, n_states, best_score, best_model, logL, score, kf,
                   result, tried, last>>

\* after the inner loop: the mean of the fold scores, or the except branch,
\* then the comparison with the running best
CVMean ==
    /\ pc = "fold" /\ fold > kf
    /\ LET sc == IF Len(state_scores) = 0 THEN NoFoldScore
                                           ELSE StatMean(state_scores)
       IN /\ score' = sc
          /\ tried' = [tried EXCEPT ![n_states] =
                         [status |-> IF Len(state_scores) = 0 THEN "nofolds"
                                                               ELSE "scored",
                          logL |-> 0, score |-> sc]]
          /\ IF FloatGt(sc, best_score)
               THEN best_score' = sc /\ best_model' = model
               ELSE UNCHANGED <<best_score, best_model>>
    /\ n_states' = n_states + 1
    /\ pc' = "loop"
    /\ UNCHANGED <<ctx, model, logL, state_scores, kf, fold, result, exc,
                   trained, last>>

CVReturn ==
    /\ pc = "loop" /\ ctx.strategy = "CV"
    /\ n_states > ctx.max_n_components
    /\ result' = best_model
    /\ pc' = "done"
    /\ UNCHANGED <<ctx, n_states, best_score, best_model, model, logL, score,
                   state_scores, kf, fold, exc, trained, tried, last>>

Next ==
    \/ ConstantSelect
    \/ BICBegin \/ BICIter \/ BICReturn
    \/ DICBegin \/ DICIter \/ DICReturn
    \/ CVBegin \/ CVSplit \/ CVFold \/ CVMean \/ CVReturn

Spec == Init /\ [][Next]_vars

\* ======================= properties =======================
Searching == {"BIC", "DIC", "CV"}
Range == ctx.min_n_components .. ctx.max_n_components
FullFit(n) == [n |-> n, on |-> AllIdx(ctx.sequences)]
Scored == {n \in Range : tried[n].status = "scored"}
Evaluated == {n \in Range : tried[n].status # "untried"}

\* C1: select() returns normally under every pattern of trainer outcomes: no
\* training failure (the assert on the model of base_model) and no failure of
\* a fold re-fit ever propagates to the caller of select().
C1_NoTrainingFailurePropagates == exc \notin {"AssertionError", "FitError"}

\* C2: SelectorBIC.select() returns the model, fitted on the word's own data,
\* of a state count whose -2*logL + (n^2 + 2*n*M - 1)*ln(N) is minimal among
\* the state counts of the range that both train and score, after trying every
\* state count of the range, and returns None exactly when there is none.
C2_BICReturnsMinimum ==
    (ctx.strategy = "BIC" /\ pc = "done") =>
        LET claimScore(n) == -2000 * tried[n].logL
                             + (n * n + 2 * n * ctx.M - 1) * LnMilli(ctx.N)
        IN /\ Evaluated = Range
           /\ exc = "none"
           /\ (result = None) <=> (Scored = {})
           /\ Scored # {} =>
                /\ result.n \in Scored
                /\ result = FullFit(result.n)
                /\ \A m \in Scored : claimScore(result.n) <= claimScore(m)

C2_Witness ==
    /\ ctx.strategy = "BIC" /\ pc = "done"
    /\ ctx.N = 50
    /\ Cardinality(Scored) >= 2
    /\ \E k \in Range : tried[k].status = "failed"
    /\ \E m \in Scored : m < result.n /\ tried[m].logL < tried[result.n].logL

\* C3: with at least one other word, a state count is a candidate of
\* SelectorDIC.select() only if training, the own score and the score on every
\* other word all succeed; its score is then logL minus the arithmetic mean of
\* the scores on all the other words, and select() returns a model of maximal
\* score among the candidates (None when there is none).
C3_DICReturnsMaximum ==
    (ctx.strategy = "DIC" /\ ctx.others >= 1) =>
        /\ (pc \in {"loop", "done"} /\ n_states - 1 \in Range) =>
             LET c == n_states - 1
                 allOk == /\ last.train = "ok" /\ last.own.ok
                          /\ Len(last.others) = ctx.others
                          /\ \A w \in 1 .. ctx.others : last.others[w].ok
             IN /\ (tried[c].status = "scored") <=> allOk
                /\ tried[c].status # "scored" => tried[c].status = "failed"
                /\ allOk =>
                     /\ tried[c].score.kind = "fin"
                     /\ tried[c].logL = last.own.v
                     /\ tried[c].score.v * ctx.others =
                          60 * (last.own.v * ctx.others
                                - SeqSum([w \in 1 .. ctx.others |-> last.others[w].v]))
        /\ pc = "done" =>
             /\ Evaluated = Range
             /\ exc = "none"
             /\ (result = None) <=> (Scored = {})
             /\ Scored # {} =>
                  /\ result.n \in Scored
                  /\ result = FullFit(result.n)
                  /\ \A m \in Scored : tried[result.n].score.v >= tried[m].score.v

C3_Witness ==
    /\ ctx.strategy = "DIC" /\ ctx.others = 2 /\ pc = "done"
    /\ result # None /\ result.n > ctx.min_n_components
    /\ tried[ctx.min_n_components].status = "scored"
    /\ tried[ctx.max_n_components].status = "failed"
    /\ last.train = "ok" /\ last.own.ok
    /\ last.others[1].ok /\ ~last.others[2].ok

\* C4: with at least 3 sequences, the model returned by SelectorCV.select()
\* has the state count of the highest mean fold score and its last fit was on
\* the full data of the word, not on the train part of a fold.
C4_CVReturnsFullFit ==
    (ctx.strategy = "CV" /\ ctx.sequences >= 3 /\ pc = "done" /\ Scored # {}) =>
        /\ result = FullFit(result.n)
        /\ result.n \in Scored
        /\ \A m \in Scored : tried[result.n].score.v >= tried[m].score.v

\* C5: in SelectorCV.select() a state count without any usable fold score is
\* never the selected one when another state count of the range has a usable
\* fold score, and it never replaces a recorded best.
C5_NoFoldCandidateLoses ==
    (ctx.strategy = "CV" /\ pc = "done" /\ Scored # {}) =>
        tried[result.n].status # "nofolds"

\* C6: with fewer than 3 sequences SelectorCV.select() returns the result of
\* training once on the full data at state count 3 (None if that fails),
\* whatever the range is, without a fold split and without training or
\* evaluating any other state count.
C6_CVFallback ==
    (ctx.strategy = "CV" /\ ctx.sequences < 3 /\ pc # "init") =>
        /\ pc = "done"
        /\ exc = "none"
        /\ kf = 0 /\ fold = 0
        /\ trained[3] \in {"ok", "fail"}
        /\ result = IF trained[3] = "ok" THEN FullFit(3) ELSE None
        /\ \A n \in StateCounts : n # 3 => trained[n] = "unknown"
        /\ \A n \in StateCounts : tried[n] = Untried

C6_Witness ==
    /\ ctx.strategy = "CV" /\ ctx.sequences = 2 /\ pc = "done"
    /\ ctx.min_n_components > 3 /\ ctx.max_n_components >= ctx.min_n_components
    /\ result = FullFit(3)

\* C7: in SelectorCV.select() with at least 3 sequences, the number of folds
\* requested from the splitter never exceeds the number of sequences, and the
\* split does not fail.
C7_FoldCountClamped ==
    (ctx.strategy = "CV" /\ ctx.sequences >= 3) =>
        /\ kf <= ctx.sequences
        /\ exc # "ValueError"

\* C8: in each searching strategy the recorded best is the model of the
\* SMALLEST state count that achieved the best score: no earlier state count
\* has a score equal to the best one, so a later equal score never replaced it.
C8_FirstWinsTies ==
    (ctx.strategy \in Searching /\ pc \in {"loop", "done"} /\ best_model # None
     /\ best_score.kind # "-inf") =>
        /\ tried[best_model.n].status \in {"scored", "nofolds"}
        /\ tried[best_model.n].score = best_score
        /\ \A m \in Evaluated :
             (m < best_model.n /\ tried[m].status \in {"scored", "nofolds"}) =>
                 tried[m].score # best_score
        /\ pc = "done" => result = best_model

C8_Witness ==
    /\ ctx.strategy \in Searching /\ pc = "done" /\ result # None
    /\ tried[result.n].status = "scored"
    /\ \E m \in Scored : m > result.n /\ tried[m].score = tried[result.n].score

\* C9: a training or scoring failure at one state count k excludes only k: each
\* searching strategy still evaluates every state count of the range and
\* returns a model of a state count that did not fail.
C9_FailureIsolation ==
    (/\ ctx.strategy \in Searching
     /\ ctx.strategy = "CV" => ctx.sequences >= ctx.kfold_default
     /\ pc \in {"done", "raised"}
     /\ exc \in {"none", "AssertionError"}
     /\ \E k \in Range : trained[k] = "fail") =>
        /\ pc = "done"
        /\ Evaluated = Range
        /\ result # None => trained[result.n] = "ok"

\* C10: when the corpus holds no other word, SelectorDIC.select() never records
\* a best model and returns None without raising: the score of every state
\* count that trains and scores is NaN.
C10_DICAloneReturnsNone ==
    (ctx.strategy = "DIC" /\ ctx.others = 0) =>
        /\ best_model = None
        /\ result = None
        /\ exc = "none" /\ pc # "raised"
        /\ \A n \in Scored : tried[n].score = NaN
        /\ pc = "done" => Evaluated = Range

C10_Witness ==
    /\ ctx.strategy = "DIC" /\ ctx.others = 0 /\ pc = "done"
    /\ Cardinality(Range) >= 2
    /\ Scored = Range
    /\ result = None
====
